---- MODULE Spec2Model ----
(***************************************************************************)
(* Agent based model of ancestry (package abm): the simulation engine      *)
(* (NewSimulation, Simulate and the three mating strategies), the ancestor *)
(* resolver (setAncestors, setAncestorsGen) and the sorted-array counting  *)
(* primitive (CountCommonElementsSortedArray).                             *)
(*                                                                         *)
(* Agent ids are 0-based as in the Go code; TLA+ sequences are 1-based, so *)
(* the agent with id x is agents[x + 1] and genBdrys[g] of the Go code is  *)
(* genBdrys[g + 1] here.  A growth rate is a rational <<num, den>>; the    *)
(* rates used are exactly representable as float64, so math.Ceil of the    *)
(* float product is the ceiling of the exact product.                      *)
(***************************************************************************)
EXTENDS Integers, Sequences, FiniteSets, TLC

VARIABLES
    origin,       \* who built the simulation: "NewSimulation" or "setupSim"
    params,       \* Simulation.params
    agents,       \* Simulation.agents (the arena)
    currGen,      \* Simulation.currGen
    genBdrys,     \* Simulation.genBdrys
    matingPairs,  \* Simulation.matingPairs
    pc,           \* position of the caller in Simulate / after it
    step,         \* loop variable i of Simulate
    iter,         \* offspring iterations left in the running mating function
    draw,         \* locals k, compat of the last nonMonogamousMating iteration
    err,          \* error returned by Simulate
    call,         \* the resolver call made after the run
    vecA, vecB,   \* arguments of CountCommonElementsSortedArray
    common,       \* its result
    report        \* the statistics Analysis has computed, in order

vars == <<origin, params, agents, currGen, genBdrys, matingPairs, pc, step, iter,
          draw, err, call, vecA, vecB, common, report>>

simVars == <<origin, params, agents, currGen, genBdrys, matingPairs, pc, step, iter,
             draw, err, call>>

countVars == <<vecA, vecB, common>>

-----------------------------------------------------------------------------
(* Bounds of the model *)

MaxFounders == 2
MaxGenerations == 2
MaxAgents == 6
MaxMatingK == 2
MaxLen == 3
MaxVal == 2
MonogFounders == 4
MonogGenerations == 2
MonogAgents == 7
MonogMatingK == 3
AnalysisAgents == 6
ArenaAgents == 4
ArenaGenerations == 2
MaxGenes == 2
MaxInherited == 4
GeneGenerations == 2

(* Growth rates num/den tried; all exact in float64 *)
GrowthRates == {<<1, 2>>, <<3, 4>>, <<1, 1>>, <<2, 1>>}

(* and those tried with the two strategies that check compatibility *)
CompatGrowthRates == {<<1, 2>>, <<3, 4>>, <<2, 1>>}

-----------------------------------------------------------------------------
(* Sex constants *)

MALE == 0
FEMALE == 1
Sexes == {MALE, FEMALE}

(* The arena entry of agent id *)
Agent(ags, id) == ags[id + 1]

Min2(a, b) == IF a < b THEN a ELSE b

(* Faulty variant of Iterations: the product is truncated instead of rounded up *)
IterationsFloor(rate, n) == (rate[1] * n) \div rate[2]

(* int(math.Ceil(GrowthRate * float64(n))) *)
Iterations(rate, n) == (rate[1] * n + rate[2] - 1) \div rate[2]

(* Arena size a run reaches when no iteration is skipped: used to keep the
   parameter sets small *)
RECURSIVE ProjectedSize(_, _, _)
ProjectedSize(n, rate, gens) ==
    IF gens = 0 \/ n < 2 THEN n
    ELSE n + ProjectedSize(Iterations(rate, n), rate, gens - 1)

(* NewParameters: the defaults of the toggles *)
DefaultToggles ==
    [MateSelf |-> FALSE, MateSibling |-> FALSE, MateCousin |-> FALSE,
     MateSameSex |-> FALSE]

AllToggles ==
    [MateSelf : BOOLEAN, MateSibling : BOOLEAN, MateCousin : BOOLEAN,
     MateSameSex : BOOLEAN]

(* The settings of the toggles tried: the defaults, the setting of the tests
   (siblings and cousins allowed), everything allowed, and everything allowed
   but cousins *)
Toggles ==
    {t \in AllToggles :
        \/ t = DefaultToggles
        \/ t.MateSibling /\ t.MateCousin /\ ~t.MateSelf /\ ~t.MateSameSex
        \/ t.MateSelf /\ t.MateSibling /\ t.MateSameSex}

MakeParams(n, g, r, monog, compat, k, t, genes, mut) ==
    [NumAgents |-> n, Generations |-> g, GrowthRate |-> r,
     Monogamous |-> monog, Compatible |-> compat, MatingK |-> k,
     MateSelf |-> t.MateSelf, MateSibling |-> t.MateSibling,
     MateCousin |-> t.MateCousin, MateSameSex |-> t.MateSameSex,
     NumGenes |-> genes, MutationRate |-> mut]

-----------------------------------------------------------------------------
(* Predicates on agents *)

isSibling(a, b) ==
    a.generation > 0 /\ (a.mother = b.mother \/ a.father = b.father)

isCousin(ags, a, b) ==
    IF a.generation < 2 \/ b.generation < 2 THEN FALSE
    ELSE LET aMother == Agent(ags, a.mother)
             aFather == Agent(ags, a.father)
             bMother == Agent(ags, b.mother)
             bFather == Agent(ags, b.father)
         IN  isSibling(aMother, bMother) \/ isSibling(aMother, bFather) \/
             isSibling(aFather, bMother) \/ isSibling(aFather, bFather)

(* Faulty variant of compatible: the same-sex rule is left out *)
compatibleAnySex(p, ags, a, b) ==
    CASE p.MateSelf = FALSE /\ a.id = b.id -> FALSE
      [] p.MateSibling = FALSE /\ isSibling(a, b) -> FALSE
      [] p.MateCousin /\ isCousin(ags, a, b) -> FALSE
      [] OTHER -> TRUE

compatible(p, ags, a, b) ==
    CASE p.MateSelf = FALSE /\ a.id = b.id -> FALSE
      [] p.MateSameSex = FALSE /\ a.sex = b.sex -> FALSE
      [] p.MateSibling = FALSE /\ isSibling(a, b) -> FALSE
      [] p.MateCousin /\ isCousin(ags, a, b) -> FALSE
      [] OTHER -> TRUE

-----------------------------------------------------------------------------
(* Ancestor resolution *)

RECURSIVE ancestorLoop(_, _, _, _)
ancestorLoop(ags, vec, set, sp) ==
    IF sp >= Len(vec) THEN [vec |-> vec, set |-> set]
    ELSE LET curr == vec[sp + 1]
             cg == Agent(ags, curr).generation
         IN  IF cg = 0 THEN [vec |-> vec, set |-> set]
             ELSE LET mother == Agent(ags, curr).mother
                      father == Agent(ags, curr).father
                      vec1 == IF mother \in set THEN vec ELSE Append(vec, mother)
                      set1 == set \cup {mother}
                      vec2 == IF father \in set1 THEN vec1 ELSE Append(vec1, father)
                      set2 == set1 \cup {father}
                  IN  ancestorLoop(ags, vec2, set2, sp + 1)

(* Faulty variant of sortInts: the collected ids are left in discovery order *)
unsortedInts(vec) == vec

sortInts(vec) == SortSeq(vec, LAMBDA x, y : x < y)

(* Faulty variant of removeSelf: the first element is dropped instead of the last *)
removeFirst(vec) == SubSeq(vec, 2, Len(vec))

removeSelf(vec) == SubSeq(vec, 1, Len(vec) - 1)

setAncestors(ags, id) ==
    LET r == ancestorLoop(ags, <<id>>, {}, 0)
    IN  [ags EXCEPT ![id + 1].ancestorVec = removeSelf(sortInts(r.vec)),
                    ![id + 1].ancestorSet = r.set]

RECURSIVE setAncestorsRange(_, _, _)
setAncestorsRange(ags, i, hi) ==
    IF i >= hi THEN ags
    ELSE setAncestorsRange(setAncestors(ags, i), i + 1, hi)

(* genBdrys[gen-1] and genBdrys[gen] must be in range *)
setAncestorsGenInRange(bdrys, gen) == gen >= 1 /\ gen < Len(bdrys)

(* Faulty variant of setAncestorsGen: the range starts at the head of the arena *)
setAncestorsUpToGen(ags, bdrys, gen) ==
    setAncestorsRange(ags, 0, bdrys[gen + 1])

setAncestorsGen(ags, bdrys, gen) ==
    setAncestorsRange(ags, bdrys[gen], bdrys[gen + 1])

-----------------------------------------------------------------------------
(* Counting common elements of two sorted arrays *)

(* Faulty variant of countLoop: a match advances only the first cursor *)
RECURSIVE countLoopOneCursor(_, _, _, _, _)
countLoopOneCursor(a, b, i, j, total) ==
    IF ~(i < Len(a) /\ j < Len(b)) THEN total
    ELSE CASE a[i + 1] < b[j + 1] -> countLoopOneCursor(a, b, i + 1, j, total)
           [] a[i + 1] > b[j + 1] -> countLoopOneCursor(a, b, i, j + 1, total)
           [] OTHER -> countLoopOneCursor(a, b, i + 1, j, total + 1)

RECURSIVE countLoop(_, _, _, _, _)
countLoop(a, b, i, j, total) ==
    IF ~(i < Len(a) /\ j < Len(b)) THEN total
    ELSE CASE a[i + 1] < b[j + 1] -> countLoop(a, b, i + 1, j, total)
           [] a[i + 1] > b[j + 1] -> countLoop(a, b, i, j + 1, total)
           [] OTHER -> countLoop(a, b, i + 1, j + 1, total + 1)

CountCommonElementsSortedArray(a, b) == countLoop(a, b, 0, 0, 0)

-----------------------------------------------------------------------------
(* The arena *)

(* A gene label "f-k" followed by m backticks *)
Gene(f, k, m) == [founder |-> f, index |-> k, marks |-> m]

founderGenes(id, numGenes) == [k \in 1..numGenes |-> Gene(id, k - 1, 0)]

Founder(id, sex, numGenes) ==
    [id |-> id, generation |-> 0, sex |-> sex, mother |-> 0, father |-> 0,
     children |-> <<>>, ancestorVec |-> <<>>, ancestorSet |-> {},
     genes |-> founderGenes(id, numGenes)]

(* Outcomes of "mutationRate > 0.0 && rand.Float64() < mutationRate" with the
   rate in percent: the number of marks appended *)
MutationMarks(mut) ==
    IF mut = 0 THEN {0} ELSE IF mut >= 100 THEN {1} ELSE {0, 1}

(* Faulty variant of InheritedGenes: a gene is taken from any index of a parent *)
InheritedGenesAnyIndex(ags, father, mother, numGenes, mut) ==
    IF numGenes = 0 THEN {<<>>}
    ELSE LET pool == UNION {{[src EXCEPT !.marks = @ + m] :
                                m \in MutationMarks(mut)} :
                            src \in UNION {{Agent(ags, father).genes[k],
                                            Agent(ags, mother).genes[k]} :
                                           k \in 1..numGenes}}
         IN  [1..numGenes -> pool]

(* The gene sequences newChild can give a child of father and mother *)
InheritedGenes(ags, father, mother, numGenes, mut) ==
    IF numGenes = 0 THEN {<<>>}
    ELSE LET pool == UNION {{[src EXCEPT !.marks = @ + m] :
                                m \in MutationMarks(mut)} :
                            src \in UNION {{Agent(ags, father).genes[k],
                                            Agent(ags, mother).genes[k]} :
                                           k \in 1..numGenes}}
         IN  {g \in [1..numGenes -> pool] :
                \A k \in 1..numGenes :
                    \E src \in {Agent(ags, father).genes[k],
                                Agent(ags, mother).genes[k]} :
                    \E m \in MutationMarks(mut) :
                        g[k] = [src EXCEPT !.marks = @ + m]}

(* Faulty variant of newChild: the id is one past the index the agent is stored at *)
newChildIdOffByOne(ags, father, mother, generation, sex, genes) ==
    LET agent == [id |-> Len(ags) + 1, generation |-> generation, sex |-> sex,
                  mother |-> mother, father |-> father, children |-> <<>>,
                  ancestorVec |-> <<>>, ancestorSet |-> {}, genes |-> genes]
        ags1 == Append(ags, agent)
        ags2 == [ags1 EXCEPT ![father + 1].children = Append(@, agent.id)]
    IN  [ags2 EXCEPT ![mother + 1].children = Append(@, agent.id)]

(* Faulty variant of newChild: the child is registered with its mother only *)
newChildMotherOnly(ags, father, mother, generation, sex, genes) ==
    LET agent == [id |-> Len(ags), generation |-> generation, sex |-> sex,
                  mother |-> mother, father |-> father, children |-> <<>>,
                  ancestorVec |-> <<>>, ancestorSet |-> {}, genes |-> genes]
        ags1 == Append(ags, agent)
    IN  [ags1 EXCEPT ![mother + 1].children = Append(@, agent.id)]

newChild(ags, father, mother, generation, sex, genes) ==
    LET agent == [id |-> Len(ags), generation |-> generation, sex |-> sex,
                  mother |-> mother, father |-> father, children |-> <<>>,
                  ancestorVec |-> <<>>, ancestorSet |-> {}, genes |-> genes]
        ags1 == Append(ags, agent)
        ags2 == [ags1 EXCEPT ![father + 1].children = Append(@, agent.id)]
    IN  [ags2 EXCEPT ![mother + 1].children = Append(@, agent.id)]

(* Faulty variant of setCurrGen: the slice starts at the head of the arena *)
setCurrGenFromZero(ags, bdrys, gen) ==
    IF gen >= Len(bdrys) THEN <<>>
    ELSE [k \in 1..bdrys[gen + 1] |-> [id |-> ags[k].id, mated |-> FALSE]]

setCurrGen(ags, bdrys, gen) ==
    IF gen >= Len(bdrys) THEN <<>>
    ELSE LET start == IF gen = 0 THEN 0 ELSE bdrys[gen]
             end == bdrys[gen + 1]
         IN  [k \in 1..(end - start) |->
                 [id |-> ags[start + k].id, mated |-> FALSE]]

SetGenBdrys(ags) ==
    IF Len(ags) = 0 THEN <<>>
    ELSE LET changes == {i \in 1..(Len(ags) - 1) :
                            ags[i + 1].generation # ags[i].generation}
             inner == [x \in 1..Cardinality(changes) |->
                         CHOOSE i \in changes :
                            Cardinality({c \in changes : c < i}) = x - 1]
         IN  Append(inner, Len(ags))

(* The orders rand.Shuffle can leave currGen in *)
Shuffles(cg) ==
    LET n == Len(cg)
    IN  {[k \in 1..n |-> cg[p[k]]] :
            p \in {q \in [1..n -> 1..n] : \A x, y \in 1..n : x # y => q[x] # q[y]}}

(* Faulty variant of makePair: the two fields are exchanged *)
makePairExchanged(agentA, agentB) ==
    IF agentA.sex = MALE
    THEN [male |-> agentB.id, female |-> agentA.id]
    ELSE [male |-> agentA.id, female |-> agentB.id]

makePair(agentA, agentB) ==
    IF agentA.sex = MALE
    THEN [male |-> agentA.id, female |-> agentB.id]
    ELSE [male |-> agentB.id, female |-> agentA.id]

(* Faulty variant of pairLoop: the paired agents are not marked as mated *)
RECURSIVE pairLoopNoMark(_, _, _, _, _)
pairLoopNoMark(p, ags, cg, pairs, i) ==
    IF i >= Len(cg) THEN [currGen |-> cg, matingPairs |-> pairs]
    ELSE LET agentA == Agent(ags, cg[i + 1].id)
             hi == Min2(Len(cg), i + p.MatingK)
             found == {j \in (i + 1)..(hi - 1) :
                         compatible(p, ags, agentA, Agent(ags, cg[j + 1].id))}
         IN  IF found = {} THEN pairLoopNoMark(p, ags, cg, pairs, i + 1)
             ELSE LET j == CHOOSE x \in found : \A y \in found : x <= y
                  IN  pairLoopNoMark(p, ags, cg,
                                     Append(pairs,
                                            makePair(agentA,
                                                     Agent(ags, cg[j + 1].id))),
                                     i + 1)

(* The loop of pairAgents from position i (0-based) on *)
RECURSIVE pairLoop(_, _, _, _, _)
pairLoop(p, ags, cg, pairs, i) ==
    IF i >= Len(cg) THEN [currGen |-> cg, matingPairs |-> pairs]
    ELSE IF cg[i + 1].mated THEN pairLoop(p, ags, cg, pairs, i + 1)
    ELSE LET agentA == Agent(ags, cg[i + 1].id)
             hi == Min2(Len(cg), i + p.MatingK)
             found == {j \in (i + 1)..(hi - 1) :
                         /\ ~cg[j + 1].mated
                         /\ compatible(p, ags, agentA, Agent(ags, cg[j + 1].id))}
         IN  IF found = {} THEN pairLoop(p, ags, cg, pairs, i + 1)
             ELSE LET j == CHOOSE x \in found : \A y \in found : x <= y
                      cg1 == [cg EXCEPT ![i + 1].mated = TRUE,
                                        ![j + 1].mated = TRUE]
                  IN  pairLoop(p, ags, cg1,
                               Append(pairs,
                                      makePair(agentA, Agent(ags, cg[j + 1].id))),
                               i + 1)

pairAgents(p, ags, cg) == pairLoop(p, ags, cg, <<>>, 0)

(* setPairFunc *)
setPairFunc(p) ==
    CASE p.Monogamous = FALSE /\ p.Compatible = FALSE -> "anyMating"
      [] p.Monogamous = TRUE -> "monogamousMating"
      [] OTHER -> "nonMonogamousMating"

-----------------------------------------------------------------------------
(* Initial states *)

NoDraw == [k |-> 0, compat |-> FALSE]

(* NewSimulation with parameters p and the founders' random sexes *)
NewSimulation(p, sexes) ==
    /\ origin = "NewSimulation"
    /\ params = p
    /\ agents = [x \in 1..p.NumAgents |-> Founder(x - 1, sexes[x], p.NumGenes)]
    /\ genBdrys = <<p.NumAgents>>
    /\ currGen = [x \in 1..p.NumAgents |-> [id |-> x - 1, mated |-> FALSE]]
    /\ matingPairs = <<>>
    /\ pc = "new"
    /\ step = 0
    /\ iter = 0
    /\ draw = NoDraw
    /\ err = "nil"
    /\ call = <<"none">>

(* NewParameters *)
NewParameters ==
    MakeParams(2, 32, <<51, 50>>, FALSE, FALSE, 50, DefaultToggles, 10, 0)

HandBuilt(id, generation, sex, mother, father, children) ==
    [id |-> id, generation |-> generation, sex |-> sex, mother |-> mother,
     father |-> father, children |-> children, ancestorVec |-> <<>>,
     ancestorSet |-> {}, genes |-> <<>>]

(* The arena of setupSim in the tests *)
setupSimAgents ==
    << HandBuilt(0, 0, MALE, 0, 0, <<2, 3, 4>>),
       HandBuilt(1, 0, MALE, 0, 0, <<2, 3, 4>>),
       HandBuilt(2, 1, FEMALE, 0, 1, <<>>),
       HandBuilt(3, 1, MALE, 0, 1, <<5, 6, 7, 8>>),
       HandBuilt(4, 1, MALE, 0, 1, <<5, 6, 7, 8>>),
       HandBuilt(5, 2, FEMALE, 3, 4, <<9, 10>>),
       HandBuilt(6, 2, MALE, 3, 4, <<11, 12, 13>>),
       HandBuilt(7, 2, FEMALE, 3, 4, <<9, 10>>),
       HandBuilt(8, 2, MALE, 3, 4, <<11, 12, 13>>),
       HandBuilt(9, 3, MALE, 5, 7, <<>>),
       HandBuilt(10, 3, FEMALE, 5, 7, <<>>),
       HandBuilt(11, 3, FEMALE, 8, 6, <<>>),
       HandBuilt(12, 3, FEMALE, 8, 6, <<>>),
       HandBuilt(13, 3, FEMALE, 8, 6, <<>>) >>

(* setupSim: the hand-built arena, SetGenBdrys, setCurrGen(3) *)
setupSim ==
    /\ origin = "setupSim"
    /\ params = NewParameters
    /\ agents = setupSimAgents
    /\ genBdrys = SetGenBdrys(setupSimAgents)
    /\ currGen = setCurrGen(setupSimAgents, SetGenBdrys(setupSimAgents), 3)
    /\ matingPairs = <<>>
    /\ pc = "built"
    /\ step = 0
    /\ iter = 0
    /\ draw = NoDraw
    /\ err = "nil"
    /\ call = <<"none">>

NoCount ==
    /\ vecA = <<>>
    /\ vecB = <<>>
    /\ common = -1

(* Analysis has not run *)
NoReport == report = <<>>

(* Parameter sets: the runs whose arena stays within MaxAgents.  The
   unconstrained strategy reads neither the toggles nor MatingK, which keep
   one value there; the other two strategies are run with the smallest and
   the largest search width. *)
SizeOk(n, g, r) == ProjectedSize(n, r, g) <= MaxAgents

AnyParams ==
    {MakeParams(n, g, r, FALSE, FALSE, MaxMatingK, DefaultToggles, 0, 0) :
        n \in 0..MaxFounders, g \in 0..MaxGenerations, r \in GrowthRates}

CompatParams ==
    {MakeParams(n, g, r, x[1], x[2], k, t, 0, 0) :
        n \in 0..MaxFounders, g \in 0..MaxGenerations,
        r \in CompatGrowthRates,
        x \in {<<TRUE, FALSE>>, <<TRUE, TRUE>>, <<FALSE, TRUE>>},
        k \in {1, MaxMatingK}, t \in Toggles}

MainParams ==
    {p \in AnyParams \cup CompatParams :
        SizeOk(p.NumAgents, p.Generations, p.GrowthRate)}

Init ==
    /\ \/ \E p \in MainParams : \E sexes \in [1..p.NumAgents -> Sexes] :
             NewSimulation(p, sexes)
       \/ setupSim
    /\ NoCount
    /\ NoReport

-----------------------------------------------------------------------------
(* Simulate.  The growth rates are positive and a step runs on at least two
   agents, so every mating call runs at least one offspring iteration; the
   last iteration of a call is followed by the rest of the step (the index is
   extended, currGen is refilled, the loop test is made). *)

Strategy == setPairFunc(params)

CurrIds == {currGen[x].id : x \in 1..Len(currGen)}

(* Position after the loop test "i <= s.params.Generations" with i = next *)
LoopTest(next) == IF next <= params.Generations THEN "loop" ELSE "done"

SimulateStart ==
    /\ pc = "new"
    /\ currGen' = setCurrGen(agents, genBdrys, 0)
    /\ step' = 1
    /\ pc' = LoopTest(1)
    /\ UNCHANGED <<origin, params, agents, genBdrys, matingPairs, iter, draw, err, call>>
    /\ UNCHANGED countVars
    /\ UNCHANGED report

InsufficientSurvivors ==
    /\ pc = "loop"
    /\ Len(currGen) < 2
    /\ pc' = "failed"
    /\ err' = "insufficient survivors"
    /\ UNCHANGED <<origin, params, agents, currGen, genBdrys, matingPairs, step, iter,
                   draw, call>>
    /\ UNCHANGED countVars
    /\ UNCHANGED report

(* Faulty variant of StepReady: the size of the current generation is not
   tested *)
StepAlwaysReady == pc = "loop"

StepReady ==
    /\ pc = "loop"
    /\ Len(currGen) >= 2

(* Shuffle, then the call of anyMating up to its loop *)
BeginAnyMating ==
    /\ StepReady
    /\ Strategy = "anyMating"
    /\ currGen' \in Shuffles(currGen)
    /\ iter' = Iterations(params.GrowthRate, Len(currGen))
    /\ pc' = "breed"
    /\ UNCHANGED <<origin, params, agents, genBdrys, matingPairs, step, draw, err, call>>
    /\ UNCHANGED countVars
    /\ UNCHANGED report

BeginNonMonogamousMating ==
    /\ StepReady
    /\ Strategy = "nonMonogamousMating"
    /\ currGen' \in Shuffles(currGen)
    /\ iter' = Iterations(params.GrowthRate, Len(currGen))
    /\ pc' = "breed"
    /\ UNCHANGED <<origin, params, agents, genBdrys, matingPairs, step, draw, err, call>>
    /\ UNCHANGED countVars
    /\ UNCHANGED report

(* Shuffle, pairAgents, and a non-empty pool *)
BeginMonogamousMating ==
    /\ StepReady
    /\ Strategy = "monogamousMating"
    /\ \E cg \in Shuffles(currGen) :
          LET r == pairAgents(params, agents, cg)
          IN  /\ Len(r.matingPairs) # 0
              /\ currGen' = r.currGen
              /\ matingPairs' = r.matingPairs
    /\ iter' = Iterations(params.GrowthRate, Len(currGen))
    /\ pc' = "breed"
    /\ UNCHANGED <<origin, params, agents, genBdrys, step, draw, err, call>>
    /\ UNCHANGED countVars
    /\ UNCHANGED report

(* Faulty variant of MonogamousNoPairs: the error of monogamousMating is
   dropped and the step is completed *)
MonogamousNoPairsIgnored ==
    /\ StepReady
    /\ Strategy = "monogamousMating"
    /\ \E cg \in Shuffles(currGen) :
          LET r == pairAgents(params, agents, cg)
          IN  /\ Len(r.matingPairs) = 0
              /\ matingPairs' = r.matingPairs
    /\ genBdrys' = Append(genBdrys, Len(agents))
    /\ currGen' = setCurrGen(agents, genBdrys', step)
    /\ step' = step + 1
    /\ pc' = LoopTest(step + 1)
    /\ UNCHANGED <<origin, params, agents, iter, draw, err, call>>
    /\ UNCHANGED countVars
    /\ UNCHANGED report

(* Shuffle, pairAgents, and an empty pool: monogamousMating returns an error *)
MonogamousNoPairs ==
    /\ StepReady
    /\ Strategy = "monogamousMating"
    /\ \E cg \in Shuffles(currGen) :
          LET r == pairAgents(params, agents, cg)
          IN  /\ Len(r.matingPairs) = 0
              /\ currGen' = r.currGen
              /\ matingPairs' = r.matingPairs
    /\ pc' = "failed"
    /\ err' = "no mating pairs"
    /\ UNCHANGED <<origin, params, agents, genBdrys, step, iter, draw, call>>
    /\ UNCHANGED countVars
    /\ UNCHANGED report

(* newChild with its random draws *)
Breed(father, mother) ==
    \E sex \in Sexes :
    \E genes \in InheritedGenes(agents, father, mother, params.NumGenes,
                                params.MutationRate) :
        agents' = newChild(agents, father, mother, step, sex, genes)

(* After an offspring iteration: the next one, or the rest of the step *)
AfterIteration ==
    /\ iter' = iter - 1
    /\ IF iter > 1
       THEN UNCHANGED <<genBdrys, currGen, step, pc>>
       ELSE /\ genBdrys' = Append(genBdrys, Len(agents'))
            /\ currGen' = setCurrGen(agents', genBdrys', step)
            /\ step' = step + 1
            /\ pc' = LoopTest(step + 1)

AnyMatingIteration ==
    /\ pc = "breed"
    /\ Strategy = "anyMating"
    /\ \E i \in CurrIds : \E j \in CurrIds : Breed(i, j)
    /\ AfterIteration
    /\ UNCHANGED <<origin, params, matingPairs, draw, err, call>>
    /\ UNCHANGED countVars
    /\ UNCHANGED report

MakeChildMonogamous ==
    /\ pc = "breed"
    /\ Strategy = "monogamousMating"
    /\ \E x \in 1..Len(matingPairs) :
          Breed(matingPairs[x].male, matingPairs[x].female)
    /\ AfterIteration
    /\ UNCHANGED <<origin, params, matingPairs, draw, err, call>>
    /\ UNCHANGED countVars
    /\ UNCHANGED report

Compat(i, j) == compatible(params, agents, Agent(agents, i), Agent(agents, j))

(* The draw loop of one iteration can reach its attempt number t with first
   parent i: every earlier draw was incompatible *)
CanReachAttempt(i, t) ==
    /\ t >= 1
    /\ t <= params.MatingK
    /\ t > 1 => \E j \in CurrIds : ~Compat(i, j)

(* The locals of an iteration are gone when its mating call has returned *)
Locals(d) == IF iter > 1 THEN d ELSE NoDraw

(* One iteration whose draw loop ends with k < MatingK: a child is made *)
NonMonogamousChild ==
    /\ pc = "breed"
    /\ Strategy = "nonMonogamousMating"
    /\ \E i \in CurrIds : \E j \in CurrIds : \E t \in 1..params.MatingK :
          /\ CanReachAttempt(i, t)
          /\ Compat(i, j)
          /\ t < params.MatingK
          /\ draw' = Locals([k |-> t, compat |-> TRUE])
          /\ Breed(i, j)
    /\ AfterIteration
    /\ UNCHANGED <<origin, params, matingPairs, err, call>>
    /\ UNCHANGED countVars
    /\ UNCHANGED report

(* One iteration whose draw loop ends with k >= MatingK: continue *)
NonMonogamousSkip ==
    /\ pc = "breed"
    /\ Strategy = "nonMonogamousMating"
    /\ \E i \in CurrIds :
          \/ /\ params.MatingK <= 0
             /\ draw' = Locals([k |-> 0, compat |-> FALSE])
          \/ \E j \in CurrIds :
                /\ CanReachAttempt(i, params.MatingK)
                /\ draw' = Locals([k |-> params.MatingK,
                                   compat |-> Compat(i, j)])
    /\ agents' = agents
    /\ AfterIteration
    /\ UNCHANGED <<origin, params, matingPairs, err, call>>
    /\ UNCHANGED countVars
    /\ UNCHANGED report

-----------------------------------------------------------------------------
(* Ancestor resolution after the run *)

SetAncestorsGenCall(gen) ==
    /\ pc \in {"done", "built"}
    /\ call' = <<"setAncestorsGen", gen>>
    /\ IF setAncestorsGenInRange(genBdrys, gen)
       THEN /\ agents' = setAncestorsGen(agents, genBdrys, gen)
            /\ pc' = "resolved"
       ELSE /\ agents' = agents
            /\ pc' = "panic"
    /\ UNCHANGED <<origin, params, currGen, genBdrys, matingPairs, step, iter, draw, err>>
    /\ UNCHANGED countVars
    /\ UNCHANGED report

Generations == 0..(Len(genBdrys) - 1)

Next ==
    \/ SimulateStart
    \/ InsufficientSurvivors
    \/ BeginAnyMating
    \/ BeginNonMonogamousMating
    \/ BeginMonogamousMating
    \/ MonogamousNoPairs
    \/ AnyMatingIteration
    \/ MakeChildMonogamous
    \/ NonMonogamousChild
    \/ NonMonogamousSkip
    \/ \E gen \in Generations : SetAncestorsGenCall(gen)

Spec == Init /\ [][Next]_vars

-----------------------------------------------------------------------------
(* CountCommonElementsSortedArray on its own: every pair of non-decreasing
   sequences of at most MaxLen values in 0..MaxVal *)

SortedSeqs ==
    {s \in UNION {[1..n -> 0..MaxVal] : n \in 0..MaxLen} :
        \A i \in 1..(Len(s) - 1) : s[i] <= s[i + 1]}

InitCount ==
    /\ origin = "none"
    /\ params = NewParameters
    /\ agents = <<>>
    /\ genBdrys = <<>>
    /\ currGen = <<>>
    /\ matingPairs = <<>>
    /\ pc = "idle"
    /\ step = 0
    /\ iter = 0
    /\ draw = NoDraw
    /\ err = "nil"
    /\ call = <<"none">>
    /\ vecA \in SortedSeqs
    /\ vecB \in SortedSeqs
    /\ common = -1
    /\ NoReport

CountCall ==
    /\ common = -1
    /\ common' = CountCommonElementsSortedArray(vecA, vecB)
    /\ UNCHANGED <<vecA, vecB>>
    /\ UNCHANGED simVars
    /\ UNCHANGED report

NextCount == CountCall

SpecCount == InitCount /\ [][NextCount]_vars

-----------------------------------------------------------------------------
(* Simulate under monogamousMating on generations large enough for more than
   one pair: up to MonogFounders founders, every search width up to
   MonogMatingK, growth rates below 1 to keep the arena within MonogAgents *)

MonogGrowthRates == {<<1, 2>>, <<3, 4>>}

MonogParams ==
    {p \in {MakeParams(n, g, r, TRUE, TRUE, k, t, 0, 0) :
                n \in 2..MonogFounders, g \in 1..MonogGenerations,
                r \in MonogGrowthRates,
                k \in 1..MonogMatingK, t \in Toggles} :
        ProjectedSize(p.NumAgents, p.GrowthRate, p.Generations) <= MonogAgents}

InitMonog ==
    /\ \E p \in MonogParams : \E sexes \in [1..p.NumAgents -> Sexes] :
          NewSimulation(p, sexes)
    /\ NoCount
    /\ NoReport

NextMonog ==
    \/ SimulateStart
    \/ InsufficientSurvivors
    \/ BeginMonogamousMating
    \/ MonogamousNoPairs
    \/ MakeChildMonogamous

SpecMonog == InitMonog /\ [][NextMonog]_vars

-----------------------------------------------------------------------------
(* Analysis and the statistics it reports.  Parameters.Analysis is the set of
   the letters the selector string contains. *)

(* Faulty variant of generationDiff: the oldest common ancestor is taken *)
generationDiffOldest(ags, a, b) ==
    LET shared == {k \in 1..Len(a.ancestorVec) : a.ancestorVec[k] \in b.ancestorSet}
    IN  a.generation -
            (IF shared = {} THEN 0
             ELSE Agent(ags, a.ancestorVec[CHOOSE k \in shared :
                                              \A m \in shared : k <= m]).generation)

(* The loop of generationDiff from index i (0-based) downwards *)
RECURSIVE generationFound(_, _, _, _)
generationFound(ags, a, b, i) ==
    IF i < 0 THEN 0
    ELSE IF a.ancestorVec[i + 1] \in b.ancestorSet
         THEN Agent(ags, a.ancestorVec[i + 1]).generation
         ELSE generationFound(ags, a, b, i - 1)

(* Faulty variant of generationDiff: an agent is at distance 0 from itself *)
generationDiffSelfHandled(ags, a, b) ==
    IF a.id = b.id THEN 0
    ELSE a.generation - generationFound(ags, a, b, Len(a.ancestorVec) - 1)

generationDiff(ags, a, b) ==
    a.generation - generationFound(ags, a, b, Len(a.ancestorVec) - 1)

(* math.MaxInt and math.MinInt, 32 bits wide here: only their being beyond
   every value of the loops matters *)
MaxInt == 2147483647
MinInt == (-MaxInt) - 1

RECURSIVE SumSeq(_)
SumSeq(seq) == IF seq = <<>> THEN 0 ELSE Head(seq) + SumSeq(Tail(seq))

(* min_ and max_ after a loop over values that started from init *)
LoopMin(values, init) ==
    IF values = <<>> THEN init
    ELSE LET seen == {values[k] : k \in 1..Len(values)} \cup {init}
         IN  CHOOSE v \in seen : \A w \in seen : v <= w

LoopMax(values, init) ==
    IF values = <<>> THEN init
    ELSE LET seen == {values[k] : k \in 1..Len(values)} \cup {init}
         IN  CHOOSE v \in seen : \A w \in seen : v >= w

(* math.Round(float64(num) / float64(den)) for num >= 0 and den > 0: the
   nearest integer, a half rounded away from zero *)
mathRound(num, den) == (2 * num + den) \div (2 * den)

(* s.agents[len(s.agents)-1].generation *)
lastGeneration(ags) == ags[Len(ags)].generation

(* The values a double loop visits, in order: one sequence per outer index *)
RECURSIVE Flatten(_)
Flatten(seqs) == IF seqs = <<>> THEN <<>> ELSE Head(seqs) \o Flatten(Tail(seqs))

reportNumAncestors(ags, bdrys) ==
    LET generation == lastGeneration(ags)
        start == bdrys[generation]
        nums == [k \in 1..(Len(ags) - start) |-> Len(ags[start + k].ancestorVec)]
    IN  [stat |-> "N", totAgents |-> Len(ags), count |-> Len(nums),
         generation |-> generation, min |-> LoopMin(nums, MaxInt),
         max |-> LoopMax(nums, MinInt), total |-> SumSeq(nums),
         mean |-> mathRound(SumSeq(nums), Len(nums))]

reportCommonAncestors(ags, bdrys) ==
    LET generation == lastGeneration(ags)
        start == bdrys[generation]
        values == Flatten([i \in 1..(Len(ags) - 1 - start) |->
                     [j \in 1..(Len(ags) - (start + i)) |->
                         CountCommonElementsSortedArray(
                             ags[start + i].ancestorVec,
                             ags[start + i + j].ancestorVec)]])
    IN  [stat |-> "C", min |-> LoopMin(values, MaxInt),
         max |-> LoopMax(values, MinInt), total |-> SumSeq(values),
         pop |-> Len(ags) - start, evaluated |-> Len(values),
         mean |-> mathRound(2 * SumSeq(values),
                            (Len(ags) - start) * (Len(ags) - start))]

(* The inner loop of reportGenDiff for agent a: j from a.id - 1 down while
   j > 0 and agent j is of the last generation *)
RECURSIVE genDiffInner(_, _, _, _)
genDiffInner(ags, a, lastGen, j) ==
    IF j <= 0 \/ Agent(ags, j).generation # lastGen THEN <<>>
    ELSE <<generationDiff(ags, a, Agent(ags, j))>>
            \o genDiffInner(ags, a, lastGen, j - 1)

(* Its outer loop: i from len(s.agents) - 1 down while agent i is of the last
   generation *)
RECURSIVE genDiffOuter(_, _, _)
genDiffOuter(ags, lastGen, i) ==
    IF i < 0 \/ Agent(ags, i).generation # lastGen THEN <<>>
    ELSE <<genDiffInner(ags, Agent(ags, i), lastGen, i - 1)>>
            \o genDiffOuter(ags, lastGen, i - 1)

reportGenDiff(ags) ==
    LET lastGen == lastGeneration(ags)
        rows == genDiffOuter(ags, lastGen, Len(ags) - 1)
        values == Flatten(rows)
    IN  [stat |-> "D", min |-> LoopMin(values, MaxInt),
         max |-> LoopMax(values, 0), total |-> SumSeq(values),
         count |-> Len(rows), evaluated |-> Len(values),
         mean |-> mathRound(2 * SumSeq(values), Len(rows) * Len(rows))]

(* The slices <<start, end>> reportGenes passes to analyzeGenes, in order *)
RECURSIVE geneSlices(_, _, _, _, _)
geneSlices(bdrys, n, lastGenOnly, k, start) ==
    IF k > Len(bdrys) THEN <<>>
    ELSE (IF lastGenOnly = FALSE \/ bdrys[k] = n
          THEN <<(<<start, bdrys[k]>>)>> ELSE <<>>)
            \o geneSlices(bdrys, n, lastGenOnly, k + 1, bdrys[k])

(* analyzeGenes reads agents[0] of its slice: an empty slice panics *)
analyzeGenesPanics(slice) == slice[1] = slice[2]

RECURSIVE analysedSlices(_)
analysedSlices(slices) ==
    IF slices = <<>> \/ analyzeGenesPanics(Head(slices)) THEN <<>>
    ELSE <<Head(slices)>> \o analysedSlices(Tail(slices))

reportGenes(ags, bdrys, lastGenOnly) ==
    LET slices == geneSlices(bdrys, Len(ags), lastGenOnly, 1, 0)
    IN  [stat |-> "G", slices |-> analysedSlices(slices),
         panics |-> \E k \in 1..Len(slices) : analyzeGenesPanics(slices[k])]

(* The statistics Analysis computes once the last generation is resolved *)
selectedReports(sel, ags, bdrys) ==
    (IF "N" \in sel THEN <<reportNumAncestors(ags, bdrys)>> ELSE <<>>)
    \o (IF "C" \in sel THEN <<reportCommonAncestors(ags, bdrys)>> ELSE <<>>)
    \o (IF "D" \in sel THEN <<reportGenDiff(ags)>> ELSE <<>>)
    \o (IF "G" \in sel THEN <<reportGenes(ags, bdrys, "g" \in sel)>> ELSE <<>>)

reportPanics(rep) == \E k \in 1..Len(rep) : rep[k].stat = "G" /\ rep[k].panics

(* Faulty variant of Analysis: the statistics are computed before the last
   generation is resolved *)
AnalysisUnresolved ==
    /\ pc \in {"done", "failed"}
    /\ IF Len(agents) = 0
       THEN /\ pc' = "analysisFailed"
            /\ err' = "No agents in simulation"
            /\ UNCHANGED <<agents, report>>
       ELSE IF lastGeneration(agents) = 0
       THEN /\ pc' = "analysisFailed"
            /\ err' = "only zero generation exists"
            /\ UNCHANGED <<agents, report>>
       ELSE LET rep == selectedReports(params.Analysis, agents, genBdrys)
            IN  /\ agents' = setAncestorsGen(agents, genBdrys,
                                             lastGeneration(agents))
                /\ report' = rep
                /\ pc' = IF reportPanics(rep) THEN "panic" ELSE "analysed"
                /\ err' = "nil"
    /\ UNCHANGED <<origin, params, currGen, genBdrys, matingPairs, step, iter,
                   draw, call>>
    /\ UNCHANGED countVars

(* Analysis, called by main after Simulate whatever Simulate returned *)
Analysis ==
    /\ pc \in {"done", "failed"}
    /\ IF Len(agents) = 0
       THEN /\ pc' = "analysisFailed"
            /\ err' = "No agents in simulation"
            /\ UNCHANGED <<agents, report>>
       ELSE IF lastGeneration(agents) = 0
       THEN /\ pc' = "analysisFailed"
            /\ err' = "only zero generation exists"
            /\ UNCHANGED <<agents, report>>
       ELSE LET resolved == setAncestorsGen(agents, genBdrys,
                                            lastGeneration(agents))
                rep == selectedReports(params.Analysis, resolved, genBdrys)
            IN  /\ agents' = resolved
                /\ report' = rep
                /\ pc' = IF reportPanics(rep) THEN "panic" ELSE "analysed"
                /\ err' = "nil"
    /\ UNCHANGED <<origin, params, currGen, genBdrys, matingPairs, step, iter,
                   draw, call>>
    /\ UNCHANGED countVars

(* main: NewSimulation, Simulate, Analysis, under the two strategies that
   never fail a step, on arenas of at most AnalysisAgents agents.  The runs of
   nonMonogamousMating are those that forbid sibling mating, where a
   generation can stay empty. *)
Selectors == {{}, {"N", "D"}, {"C", "G"}, {"N", "C", "D", "G", "g"}}

AnalysisGrowthRates == {<<1, 2>>, <<1, 1>>, <<2, 1>>}

AnalysisParams ==
    {[Analysis |-> sel] @@ p :
        sel \in Selectors,
        p \in {q \in AnyParams \cup CompatParams :
                 /\ q.Monogamous = FALSE
                 /\ q.MatingK = MaxMatingK
                 /\ q.Compatible \/ q.GrowthRate \in AnalysisGrowthRates
                 /\ q.Compatible => q.MateSibling = FALSE
                 /\ ProjectedSize(q.NumAgents, q.GrowthRate, q.Generations)
                        <= AnalysisAgents}}

InitAnalysis ==
    /\ \E p \in AnalysisParams : \E sexes \in [1..p.NumAgents -> Sexes] :
          NewSimulation(p, sexes)
    /\ NoCount
    /\ NoReport

NextAnalysis ==
    \/ SimulateStart
    \/ InsufficientSurvivors
    \/ BeginAnyMating
    \/ BeginNonMonogamousMating
    \/ AnyMatingIteration
    \/ NonMonogamousChild
    \/ NonMonogamousSkip
    \/ Analysis

SpecAnalysis == InitAnalysis /\ [][NextAnalysis]_vars

-----------------------------------------------------------------------------
(* setAncestors on its own, applied to one agent of a hand-built arena.  The
   arenas are written down agent by agent as in the tests: founders first,
   generations in non-decreasing order without gaps, every non-founder with a
   mother and a father of any lower generation, children registered with both
   parents. *)

HandBuiltSex(id) == IF id % 2 = 0 THEN MALE ELSE FEMALE

HandBuiltExtensions(ags) ==
    LET id == Len(ags)
        last == IF id = 0 THEN 0 ELSE ags[id].generation
        founders == IF last = 0
                    THEN {Append(ags, Founder(id, HandBuiltSex(id), 0))}
                    ELSE {}
        lower(g) == {q \in 0..(id - 1) : Agent(ags, q).generation < g}
        born == {newChild(ags, father, mother, g, HandBuiltSex(id), <<>>) :
                    <<g, father, mother>> \in
                        {t \in (1..ArenaGenerations) \X (0..(id - 1)) \X (0..(id - 1)) :
                            /\ t[1] \in {last, last + 1}
                            /\ t[2] \in lower(t[1])
                            /\ t[3] \in lower(t[1])}}
    IN  founders \cup born

RECURSIVE HandBuiltArenasOfSize(_)
HandBuiltArenasOfSize(n) ==
    IF n = 0 THEN {<<>>}
    ELSE UNION {HandBuiltExtensions(ags) : ags \in HandBuiltArenasOfSize(n - 1)}

HandBuiltArenas == UNION {HandBuiltArenasOfSize(n) : n \in 1..ArenaAgents}

InitAncestors ==
    /\ origin = "handBuilt"
    /\ params = NewParameters
    /\ agents \in HandBuiltArenas
    /\ genBdrys = SetGenBdrys(agents)
    /\ currGen = <<>>
    /\ matingPairs = <<>>
    /\ pc = "built"
    /\ step = 0
    /\ iter = 0
    /\ draw = NoDraw
    /\ err = "nil"
    /\ call = <<"none">>
    /\ NoCount
    /\ NoReport

SetAncestorsCall(id) ==
    /\ pc = "built"
    /\ call' = <<"setAncestors", id>>
    /\ agents' = setAncestors(agents, id)
    /\ pc' = "ancestorsSet"
    /\ UNCHANGED <<origin, params, currGen, genBdrys, matingPairs, step, iter, draw, err>>
    /\ UNCHANGED countVars
    /\ UNCHANGED report

NextAncestors == \E id \in 0..(Len(agents) - 1) : SetAncestorsCall(id)

SpecAncestors == InitAncestors /\ [][NextAncestors]_vars

-----------------------------------------------------------------------------
(* Simulate with genes, under anyMating: one gene over GeneGenerations
   generations, more genes over fewer, so that a run hands down at most
   MaxInherited labels; with mutation off, at one half, and certain.  The
   founders alternate in sex: anyMating does not read it. *)

GeneGrowthRates == {<<1, 2>>, <<1, 1>>}

MutationRates == {0, 50, 100}

GeneParams ==
    {p \in {MakeParams(n, g, r, FALSE, FALSE, MaxMatingK, DefaultToggles, genes, mut) :
                n \in 2..MaxFounders, g \in 1..GeneGenerations,
                r \in GeneGrowthRates, genes \in 1..MaxGenes,
                mut \in MutationRates} :
        p.NumGenes * (ProjectedSize(p.NumAgents, p.GrowthRate, p.Generations)
                        - p.NumAgents) <= MaxInherited}

InitGenes ==
    /\ \E p \in GeneParams :
          NewSimulation(p, [x \in 1..p.NumAgents |-> HandBuiltSex(x - 1)])
    /\ NoCount
    /\ NoReport

NextGenes ==
    \/ SimulateStart
    \/ InsufficientSurvivors
    \/ BeginAnyMating
    \/ AnyMatingIteration

SpecGenes == InitGenes /\ [][NextGenes]_vars

-----------------------------------------------------------------------------
(* Vocabulary of the properties *)

Ids == 0..(Len(agents) - 1)

Range(seq) == {seq[x] : x \in 1..Len(seq)}

StrictlyAscending(seq) == \A x \in 1..(Len(seq) - 1) : seq[x] < seq[x + 1]

(* The simulation was built by NewSimulation and is run by Simulate *)
Driven == origin = "NewSimulation"

(* No generation step is under way *)
BetweenSteps == pc \in {"new", "loop", "done", "failed", "resolved", "panic"}

(* Generation steps completed so far *)
Completed == IF pc = "new" THEN 0 ELSE step - 1

(* Index range of generation g according to the Generation Index *)
GenStart(g) == IF g = 0 THEN 0 ELSE genBdrys[g]
GenEnd(g) == genBdrys[g + 1]
GenSize(g) == GenEnd(g) - GenStart(g)

(* Parent edges: a founder has none *)
Parents(ags, x) ==
    IF Agent(ags, x).generation = 0 THEN {}
    ELSE {Agent(ags, x).mother, Agent(ags, x).father}

RECURSIVE Closure(_, _)
Closure(ags, S) ==
    LET T == S \cup UNION {Parents(ags, y) : y \in S}
    IN  IF T = S THEN S ELSE Closure(ags, T)

(* The ids reachable from x by one or more mother/father edges *)
StrictAncestors(ags, x) == Closure(ags, Parents(ags, x))

(* The agents a returned setAncestorsGen(gen) was applied to *)
Resolved(x) ==
    /\ pc = "resolved"
    /\ x \in Ids
    /\ Agent(agents, x).generation = call[2]

-----------------------------------------------------------------------------
(* C1: after n completed generation steps, under any strategy and toggles,
   genBdrys has exactly n+1 entries, the entries are strictly increasing and
   the last entry equals len(agents). *)
C1_IndexStrictlyIncreasing ==
    (Driven /\ BetweenSteps) =>
        /\ Len(genBdrys) = Completed + 1
        /\ \A k \in 1..(Len(genBdrys) - 1) : genBdrys[k] < genBdrys[k + 1]
        /\ genBdrys[Len(genBdrys)] = Len(agents)

-----------------------------------------------------------------------------
(* C2: in every state reachable from NewSimulation the arena is ordered by
   non-decreasing generation and agents[i].id = i; no step changes the id,
   generation, sex, mother or father of an agent that exists. *)
C2_Ordered ==
    \A x \in 1..Len(agents) :
        /\ agents[x].id = x - 1
        /\ x < Len(agents) => agents[x].generation <= agents[x + 1].generation

C2_Frame ==
    /\ Len(agents') >= Len(agents)
    /\ \A x \in 1..Len(agents) :
        /\ agents'[x].id = agents[x].id
        /\ agents'[x].generation = agents[x].generation
        /\ agents'[x].sex = agents[x].sex
        /\ agents'[x].mother = agents[x].mother
        /\ agents'[x].father = agents[x].father

C2_ArenaOrderedAndStable == [](Driven => C2_Ordered) /\ [][C2_Frame]_vars

C2_Witness ==
    /\ Driven
    /\ pc = "done"
    /\ Len(agents) = 6
    /\ agents[6].generation = 2
    /\ agents[1].children # <<>>

-----------------------------------------------------------------------------
(* C3: the mother and the father of every agent of generation g > 0 are
   agents of the generation that was current when step g ran: they have
   generation g - 1, and their ids lie in that generation's index range,
   below the start of generation g. *)
C3_ParentsInPreviousGeneration ==
    \A x \in Ids :
        LET a == Agent(agents, x)
        IN  a.generation > 0 =>
                \A q \in {a.mother, a.father} :
                    /\ q \in Ids
                    /\ Agent(agents, q).generation = a.generation - 1
                    /\ q < GenStart(a.generation)
                    /\ q >= GenStart(a.generation - 1)

C3_Witness ==
    /\ Driven
    /\ \E x \in Ids :
          /\ Agent(agents, x).generation = 2
          /\ Agent(agents, x).mother # Agent(agents, x).father
          /\ Agent(agents, Agent(agents, x).mother).generation = 1

-----------------------------------------------------------------------------
(* C4: after setAncestors(x), for every agent x of an arena built by the
   Driver or of the hand-built arena of the tests, the ancestor vector and the
   ancestor set each hold exactly the strict ancestors of x.  Stated of the
   agents a setAncestorsGen call resolved, of setAncestors applied to any
   agent of a finished arena, and of the two vectors the test expects. *)
C4_AncestorsExact ==
    /\ \A x \in Ids :
          Resolved(x) =>
              /\ Range(Agent(agents, x).ancestorVec) = StrictAncestors(agents, x)
              /\ Agent(agents, x).ancestorSet = StrictAncestors(agents, x)
    /\ pc \in {"done", "built"} =>
          \A x \in Ids :
              LET r == Agent(setAncestors(agents, x), x)
              IN  /\ Range(r.ancestorVec) = StrictAncestors(agents, x)
                  /\ r.ancestorSet = StrictAncestors(agents, x)
    /\ (origin = "setupSim" /\ pc = "resolved" /\ call[2] = 3) =>
          /\ Agent(agents, 9).ancestorVec = <<0, 1, 3, 4, 5, 7>>
          /\ Agent(agents, 13).ancestorVec = <<0, 1, 3, 4, 6, 8>>

C4_Witness ==
    /\ Driven
    /\ \E x \in Ids :
          /\ Resolved(x)
          /\ Agent(agents, x).generation = 2
          /\ Cardinality(Agent(agents, x).ancestorSet) = 4

-----------------------------------------------------------------------------
(* C5: the ancestor vector of a resolved agent never contains the agent's own
   id, is strictly ascending, has as many elements as the ancestor set, and
   holds exactly the ids of the set. *)
WellFormed(a) ==
    /\ a.id \notin Range(a.ancestorVec)
    /\ StrictlyAscending(a.ancestorVec)
    /\ Len(a.ancestorVec) = Cardinality(a.ancestorSet)
    /\ Range(a.ancestorVec) = a.ancestorSet

C5_VectorWellFormed ==
    /\ \A x \in Ids : Resolved(x) => WellFormed(Agent(agents, x))
    /\ pc \in {"done", "built"} =>
          \A x \in Ids : WellFormed(Agent(setAncestors(agents, x), x))

C5_Witness ==
    /\ Driven
    /\ \E x \in Ids :
          /\ Resolved(x)
          /\ Len(Agent(agents, x).ancestorVec) = 3
          /\ Agent(agents, x).mother # Agent(agents, x).father

-----------------------------------------------------------------------------
(* C6: a returned setAncestorsGen(g) has populated the vector and the set of
   every agent of generation g and of no other agent; before any resolution
   call every agent has both empty. *)
Unresolved(a) == a.ancestorVec = <<>> /\ a.ancestorSet = {}

C6_OnlyGenerationResolved ==
    \A x \in Ids :
        IF Resolved(x)
        THEN /\ Agent(agents, x).ancestorVec # <<>>
             /\ Agent(agents, x).ancestorSet # {}
        ELSE Unresolved(Agent(agents, x))

C6_Witness ==
    /\ Driven
    /\ pc = "resolved"
    /\ call[2] = Agent(agents, Len(agents) - 1).generation
    /\ call[2] = 2
    /\ \E x \in Ids : Resolved(x)
    /\ \E x \in Ids : Agent(agents, x).generation = 1

-----------------------------------------------------------------------------
(* C7: ancestor resolution applied to generation 0 completes normally and
   leaves every founder with an empty vector and an empty set. *)
C7_FounderResolutionCompletes ==
    (call = <<"setAncestorsGen", 0>>) =>
        /\ pc = "resolved"
        /\ \A x \in Ids :
              Agent(agents, x).generation = 0 => Unresolved(Agent(agents, x))

-----------------------------------------------------------------------------
(* C8: for non-decreasing A and B, CountCommonElementsSortedArray(A, B) is the
   sum over the values v of min(occurrences of v in A, occurrences of v in B);
   for duplicate-free inputs it is the size of the intersection; swapping A
   and B gives the same result. *)
Occurrences(seq, v) == Cardinality({x \in 1..Len(seq) : seq[x] = v})

RECURSIVE SumMin(_, _, _)
SumMin(a, b, values) ==
    IF values = {} THEN 0
    ELSE LET v == CHOOSE w \in values : TRUE
         IN  Min2(Occurrences(a, v), Occurrences(b, v))
                + SumMin(a, b, values \ {v})

C8_CountIsMultisetIntersection ==
    common # -1 =>
        /\ common = SumMin(vecA, vecB, Range(vecA) \cup Range(vecB))
        /\ common = CountCommonElementsSortedArray(vecB, vecA)
        /\ (StrictlyAscending(vecA) /\ StrictlyAscending(vecB)) =>
              common = Cardinality(Range(vecA) \cap Range(vecB))

C8_Witness ==
    /\ common = 1
    /\ vecA = <<2, 2>>
    /\ vecB = <<1, 2>>

-----------------------------------------------------------------------------
(* C9: under the unconstrained strategy with F >= 2 founders Simulate
   succeeds, and generation g (1 <= g <= G) has exactly
   ceil(r x size of generation g-1) agents, all labelled g. *)
CeilMul(rate, n) ==
    CHOOSE c \in 0..(rate[1] * n + 1) :
        c * rate[2] >= rate[1] * n /\ (c - 1) * rate[2] < rate[1] * n

Unconstrained ==
    /\ Driven
    /\ ~params.Monogamous
    /\ ~params.Compatible
    /\ params.NumAgents >= 2

GenerationsAsComputed ==
    \A g \in 1..(Len(genBdrys) - 1) :
        /\ GenSize(g) = CeilMul(params.GrowthRate, GenSize(g - 1))
        /\ \A x \in GenStart(g)..(GenEnd(g) - 1) :
              Agent(agents, x).generation = g

C9_UnconstrainedAlwaysSucceeds ==
    (Unconstrained /\ BetweenSteps) =>
        /\ pc # "failed"
        /\ GenerationsAsComputed
        /\ genBdrys[Len(genBdrys)] = Len(agents)
        /\ pc = "done" => Len(genBdrys) = params.Generations + 1

(* C9 as amended: every step that runs creates exactly ceil(r x size of the
   current generation) agents labelled with the step's generation; Simulate
   succeeds if and only if each of the generations 0..G-1 has at least two
   agents, which is so whenever r >= 1, and otherwise fails with the
   insufficient-survivors error at the first step whose current generation
   has fewer than two. *)
C9_UnconstrainedGrowth ==
    (Unconstrained /\ BetweenSteps) =>
        /\ GenerationsAsComputed
        /\ genBdrys[Len(genBdrys)] = Len(agents)
        /\ genBdrys[1] = params.NumAgents
        /\ pc = "done" =>
              /\ Len(genBdrys) = params.Generations + 1
              /\ \A g \in 0..(params.Generations - 1) : GenSize(g) >= 2
        /\ pc = "failed" =>
              /\ err = "insufficient survivors"
              /\ Len(genBdrys) = step
              /\ step <= params.Generations
              /\ GenSize(step - 1) < 2
              /\ \A g \in 0..(step - 2) : GenSize(g) >= 2
        /\ params.GrowthRate[1] >= params.GrowthRate[2] => pc # "failed"

C9_Witness ==
    /\ Unconstrained
    /\ pc = "done"
    /\ params.GrowthRate = <<3, 4>>
    /\ params.Generations = 2
    /\ genBdrys = <<2, 4, 6>>

-----------------------------------------------------------------------------
(* C10: with MateCousin = false compatible(a, b) is false for every pair of
   cousins (both of generation >= 2, some parent of a a sibling of some parent
   of b); with MateCousin = true cousinhood never causes a rejection. *)
Siblings(a, b) ==
    /\ a.generation > 0
    /\ b.generation > 0
    /\ (a.mother = b.mother \/ a.father = b.father)

Cousins(a, b) ==
    /\ a.generation >= 2
    /\ b.generation >= 2
    /\ \E x \in {a.mother, a.father} : \E y \in {b.mother, b.father} :
          Siblings(Agent(agents, x), Agent(agents, y))

PassesOtherRules(a, b) ==
    /\ params.MateSelf \/ a.id # b.id
    /\ params.MateSameSex \/ a.sex # b.sex
    /\ params.MateSibling \/ ~isSibling(a, b)

C10_CousinRule ==
    (Driven /\ BetweenSteps) =>
        \A x \in Ids : \A y \in Ids :
            LET a == Agent(agents, x)
                b == Agent(agents, y)
            IN  Cousins(a, b) =>
                    IF params.MateCousin
                    THEN compatible(params, agents, a, b) = PassesOtherRules(a, b)
                    ELSE compatible(params, agents, a, b) = FALSE

-----------------------------------------------------------------------------
(* C11: under monogamousMating and nonMonogamousMating every agent ever
   created has parents that passed the self, same-sex and sibling rules:
   mother # father unless MateSelf, parents of different sex unless
   MateSameSex, and parents (of generation > 0) sharing neither mother nor
   father unless MateSibling. *)
ChecksCompatibility ==
    /\ Driven
    /\ Strategy \in {"monogamousMating", "nonMonogamousMating"}

C11_OffspringParentsCompatible ==
    ChecksCompatibility =>
        \A x \in Ids :
            LET c == Agent(agents, x)
                m == Agent(agents, c.mother)
                f == Agent(agents, c.father)
            IN  c.generation > 0 =>
                    /\ params.MateSelf \/ c.mother # c.father
                    /\ params.MateSameSex \/ m.sex # f.sex
                    /\ params.MateSibling \/ m.generation = 0 \/
                          (m.mother # f.mother /\ m.father # f.father)

C11_Witness ==
    /\ ChecksCompatibility
    /\ Strategy = "nonMonogamousMating"
    /\ ~params.MateSelf
    /\ ~params.MateSameSex
    /\ \E x \in Ids :
          /\ Agent(agents, x).generation = 2
          /\ Agent(agents, x).mother # Agent(agents, x).father

-----------------------------------------------------------------------------
(* C12: isSibling(a, b) is true exactly when a and b are both of generation
   > 0 and share a mother id or a father id; it is false when either argument
   is a founder, and isSibling(a, b) = isSibling(b, a). *)
C12_SiblingPredicate ==
    \A x \in Ids : \A y \in Ids :
        LET a == Agent(agents, x)
            b == Agent(agents, y)
        IN  /\ isSibling(a, b) = Siblings(a, b)
            /\ (a.generation = 0 \/ b.generation = 0) => ~isSibling(a, b)
            /\ isSibling(a, b) = isSibling(b, a)

-----------------------------------------------------------------------------
(* C13: under monogamousMating every agent has children with at most one
   other agent: all agents that have p as mother or father have the same
   other parent, and that other parent is never p. *)
Monogamy == Driven /\ Strategy = "monogamousMating"

Children == {x \in Ids : Agent(agents, x).generation > 0}

ParentsOf(x) == {Agent(agents, x).mother, Agent(agents, x).father}

ChildrenOf(p) == {x \in Children : p \in ParentsOf(x)}

OtherParent(x, p) ==
    IF Agent(agents, x).mother = p
    THEN Agent(agents, x).father
    ELSE Agent(agents, x).mother

C13_OnePartner ==
    Monogamy =>
        \A x \in Children : \A p \in ParentsOf(x) :
            /\ OtherParent(x, p) # p
            /\ \A y \in Children :
                  p \in ParentsOf(y) => OtherParent(y, p) = OtherParent(x, p)

C13_Witness ==
    /\ Monogamy
    /\ Len(matingPairs) = 2
    /\ \E x \in Ids : \E y \in Ids :
          /\ Agent(agents, x).generation = 1
          /\ Agent(agents, y).generation = 1
          /\ Agent(agents, x).father # Agent(agents, y).father
    /\ \E p \in Ids : Cardinality(ChildrenOf(p)) >= 2

-----------------------------------------------------------------------------
(* C14: under monogamousMating a step whose pool of pairs is empty fails:
   Simulate returns the error at once, no later step runs, and the failed
   step adds no agent and no entry of genBdrys; a step whose pool is not
   empty creates exactly ceil(GrowthRate x size of the current generation)
   agents, each with the male and the female of one pair of the pool as
   father and mother. *)
NoPairsFailure == pc = "failed" /\ err = "no mating pairs"

FromPool(x) ==
    \E k \in 1..Len(matingPairs) :
        /\ Agent(agents, x).father = matingPairs[k].male
        /\ Agent(agents, x).mother = matingPairs[k].female

(* The generation the pool in matingPairs was made for *)
PoolGeneration == IF pc = "breed" THEN step ELSE step - 1

C14_State ==
    /\ pc = "breed" => matingPairs # <<>>
    /\ NoPairsFailure =>
          /\ matingPairs = <<>>
          /\ Len(genBdrys) = step
          /\ genBdrys[Len(genBdrys)] = Len(agents)
          /\ \A x \in Ids : Agent(agents, x).generation < step
    /\ \A g \in 1..(Len(genBdrys) - 1) :
          GenSize(g) = CeilMul(params.GrowthRate, GenSize(g - 1))
    /\ ~NoPairsFailure =>
          \A x \in Ids :
              (Agent(agents, x).generation = PoolGeneration /\ PoolGeneration > 0)
                  => FromPool(x)

C14_Step ==
    /\ pc # "failed"
    /\ (Monogamy /\ pc = "loop" /\ Len(currGen) >= 2) =>
          /\ (matingPairs' = <<>>) <=> (pc' = "failed")
          /\ pc' = "failed" =>
                /\ err' = "no mating pairs"
                /\ agents' = agents
                /\ genBdrys' = genBdrys
          /\ pc' # "failed" => pc' = "breed"

C14_MonogamousStep == [](Monogamy => C14_State) /\ [][C14_Step]_vars

C14_Witness ==
    /\ Monogamy
    /\ NoPairsFailure
    /\ step = 2
    /\ GenSize(1) = 2
    /\ \E x \in Ids : \E y \in Ids :
          /\ Agent(agents, x).generation = 1
          /\ Agent(agents, y).generation = 1
          /\ Agent(agents, x).father # Agent(agents, y).father

-----------------------------------------------------------------------------
(* C15: at the start of every generation step Simulate tests the current
   generation: with fewer than two members the run fails with the
   insufficient-survivors error before any shuffle or breeding, the arena and
   genBdrys staying as they were; so no mating function ever runs on a
   current generation of fewer than two agents. *)
SurvivorsFailure == pc = "failed" /\ err = "insufficient survivors"

C15_State ==
    /\ pc = "breed" => Len(currGen) >= 2
    /\ SurvivorsFailure =>
          /\ Len(currGen) < 2
          /\ step <= params.Generations
          /\ Len(genBdrys) = step
          /\ genBdrys[Len(genBdrys)] = Len(agents)

C15_Step ==
    (Driven /\ pc = "loop") =>
        IF Len(currGen) < 2
        THEN /\ pc' = "failed"
             /\ err' = "insufficient survivors"
             /\ UNCHANGED <<agents, genBdrys, currGen, matingPairs, step>>
        ELSE /\ pc' \in {"breed", "failed"}
             /\ err' # "insufficient survivors"

C15_SurvivorsTestedFirst == [](Driven => C15_State) /\ [][C15_Step]_vars

C15_Witness ==
    /\ Driven
    /\ SurvivorsFailure
    /\ step = 2
    /\ Len(currGen) = 1
    /\ Len(agents) = 3

-----------------------------------------------------------------------------
(* C16: in nonMonogamousMating each offspring iteration makes at most MatingK
   second-parent draws and creates exactly one agent if and only if one of
   the draws is compatible with the first parent, the MatingK-th included; it
   creates none only when all MatingK draws are incompatible, and a skipped
   iteration neither fails the run nor prevents the later iterations of the
   step.  Stated of every iteration but the last of a step, whose locals are
   still there in the next state. *)
C16_Iteration ==
    (Driven /\ Strategy = "nonMonogamousMating" /\ pc = "breed" /\ iter > 1) =>
        /\ draw'.k <= params.MatingK
        /\ (Len(agents') = Len(agents) + 1) <=> draw'.compat
        /\ (Len(agents') = Len(agents)) <=> ~draw'.compat
        /\ pc' = "breed"
        /\ iter' = iter - 1
        /\ err' = "nil"

C16_OffspringIffCompatibleDraw == [][C16_Iteration]_vars

-----------------------------------------------------------------------------
(* C17: for agents a and b whose ancestors are resolved, in an arena built by
   Simulate, generationDiff(a, b) is a.generation minus the generation of the
   most recent agent that is a strict ancestor of both; without a common
   ancestor it is a.generation; for a and b of the same generation
   generationDiff(b, a) is the same.  Stated of the last generation once
   Analysis has resolved it. *)
Analysed == Driven /\ pc \in {"analysed", "panic"}

LastGenIds ==
    IF agents = <<>> THEN {}
    ELSE {x \in Ids : Agent(agents, x).generation = lastGeneration(agents)}

CommonAncestors(x, y) ==
    StrictAncestors(agents, x) \cap StrictAncestors(agents, y)

MostRecentGeneration(S) ==
    CHOOSE g \in {Agent(agents, z).generation : z \in S} :
        \A z \in S : Agent(agents, z).generation <= g

C17_GenerationDiff ==
    Analysed =>
        \A x \in LastGenIds : \A y \in LastGenIds :
            LET a == Agent(agents, x)
                b == Agent(agents, y)
                shared == CommonAncestors(x, y)
            IN  /\ generationDiff(agents, a, b) =
                      IF shared = {} THEN a.generation
                      ELSE a.generation - MostRecentGeneration(shared)
                /\ generationDiff(agents, a, b) = generationDiff(agents, b, a)

C17_Witness ==
    /\ Analysed
    /\ lastGeneration(agents) = 2
    /\ \E k \in 1..Len(report) :
          /\ report[k].stat = "D"
          /\ report[k].evaluated = 1
          /\ report[k].min = 1
    /\ \E x \in LastGenIds : \E y \in LastGenIds :
          /\ x # y
          /\ Cardinality(CommonAncestors(x, y)) = 3
          /\ generationDiff(agents, Agent(agents, x), Agent(agents, y)) = 1

-----------------------------------------------------------------------------
(* C18: Analysis returns an error and computes no statistic when the arena is
   empty or the last agent is of generation 0; otherwise it resolves the
   ancestors of every agent of the last generation before it computes any
   statistic, and it computes exactly the statistics N, C, D, G whose letter
   is in the selector. *)
SelectedStats ==
    SelectSeq(<<"N", "C", "D", "G">>, LAMBDA l : l \in params.Analysis)

NothingToAnalyse == agents = <<>> \/ lastGeneration(agents) = 0

AncestorCount(x) == Cardinality(StrictAncestors(agents, x))

C18_State ==
    /\ pc \notin {"analysed", "panic"} => report = <<>>
    /\ pc = "analysisFailed" =>
          /\ NothingToAnalyse
          /\ err = IF agents = <<>> THEN "No agents in simulation"
                   ELSE "only zero generation exists"
          /\ \A x \in Ids : Unresolved(Agent(agents, x))
    /\ pc \in {"analysed", "panic"} =>
          /\ ~NothingToAnalyse
          /\ \A x \in LastGenIds :
                /\ Agent(agents, x).ancestorSet = StrictAncestors(agents, x)
                /\ Range(Agent(agents, x).ancestorVec) = StrictAncestors(agents, x)
          /\ [k \in 1..Len(report) |-> report[k].stat] = SelectedStats
          /\ \A k \in 1..Len(report) :
                /\ report[k].stat = "N" =>
                      /\ report[k].count = Cardinality(LastGenIds)
                      /\ \A x \in LastGenIds :
                            /\ report[k].min <= AncestorCount(x)
                            /\ report[k].max >= AncestorCount(x)
                      /\ \E x \in LastGenIds : report[k].min = AncestorCount(x)
                      /\ \E x \in LastGenIds : report[k].max = AncestorCount(x)
                /\ (report[k].stat = "C" /\ report[k].evaluated > 0) =>
                      /\ \A x \in LastGenIds : \A y \in LastGenIds \ {x} :
                            report[k].max >= Cardinality(CommonAncestors(x, y))
                      /\ \E x \in LastGenIds : \E y \in LastGenIds \ {x} :
                            report[k].max = Cardinality(CommonAncestors(x, y))

C18_Step ==
    (Driven /\ pc \in {"done", "failed"}) =>
        /\ pc' \in {"analysisFailed", "analysed", "panic"}
        /\ (pc' = "analysisFailed") <=> NothingToAnalyse
        /\ pc' = "analysisFailed" => agents' = agents
        /\ UNCHANGED <<genBdrys, params>>

C18_AnalysisResolvesFirst == [](Driven => C18_State) /\ [][C18_Step]_vars

C18_Witness ==
    /\ Analysed
    /\ pc = "analysed"
    /\ params.Analysis = {"N", "D"}
    /\ Len(report) = 2
    /\ report[1].stat = "N"
    /\ report[1].min = 2
    /\ report[1].max = 4
    /\ lastGeneration(agents) = 2

-----------------------------------------------------------------------------
(* C19: pairAgents pairs each not-yet-mated agent at position i of the
   shuffled current generation with the first compatible agent among the
   next MatingK not-yet-mated agents after it, if there is one: agents
   already mated do not use up the window, and with MatingK = 1 the agent
   can be paired with the next unmated agent. *)
RECURSIVE windowLoop(_, _, _, _, _)
windowLoop(p, ags, cg, pairs, i) ==
    IF i >= Len(cg) THEN pairs
    ELSE IF cg[i + 1].mated THEN windowLoop(p, ags, cg, pairs, i + 1)
    ELSE LET agentA == Agent(ags, cg[i + 1].id)
             unmated == {j \in (i + 1)..(Len(cg) - 1) : ~cg[j + 1].mated}
             window == {j \in unmated :
                          Cardinality({m \in unmated : m < j}) < p.MatingK}
             found == {j \in window :
                         compatible(p, ags, agentA, Agent(ags, cg[j + 1].id))}
         IN  IF found = {} THEN windowLoop(p, ags, cg, pairs, i + 1)
             ELSE LET j == CHOOSE x \in found : \A y \in found : x <= y
                      cg1 == [cg EXCEPT ![i + 1].mated = TRUE,
                                        ![j + 1].mated = TRUE]
                  IN  windowLoop(p, ags, cg1,
                                 Append(pairs,
                                        makePair(agentA, Agent(ags, cg[j + 1].id))),
                                 i + 1)

(* pairAgents has run on the order currGen is in *)
Paired == Monogamy /\ (pc = "breed" \/ NoPairsFailure)

ShuffledOrder == [k \in 1..Len(currGen) |-> [id |-> currGen[k].id, mated |-> FALSE]]

C19_WindowOfUnmated ==
    Paired => matingPairs = windowLoop(params, agents, ShuffledOrder, <<>>, 0)

-----------------------------------------------------------------------------
(* C20: every pair recorded by pairAgents, under every setting of the
   toggles, is made of two distinct agents of the current generation that
   are each in at most one pair, and its male field names an agent of sex
   MALE and its female field an agent of sex FEMALE. *)
PairIds(k) == {matingPairs[k].male, matingPairs[k].female}

Position(id) == CHOOSE k \in 1..Len(currGen) : currGen[k].id = id

PairsExclusive ==
    /\ \A k \in 1..Len(matingPairs) :
          /\ matingPairs[k].male # matingPairs[k].female
          /\ PairIds(k) \subseteq CurrIds
          /\ \A m \in 1..Len(matingPairs) : m # k => PairIds(m) \cap PairIds(k) = {}
    /\ \A k \in 1..Len(currGen) :
          currGen[k].mated <=> \E m \in 1..Len(matingPairs) : currGen[k].id \in PairIds(m)

C20_PairsOriented ==
    Paired =>
        /\ PairsExclusive
        /\ \A k \in 1..Len(matingPairs) :
              /\ Agent(agents, matingPairs[k].male).sex = MALE
              /\ Agent(agents, matingPairs[k].female).sex = FEMALE

(* C20 as amended: the pair is oriented (male id, female id) when the two
   agents differ in sex, which they do whenever MateSameSex is false; a pair
   of two MALE agents has the earlier agent of the shuffled order in its male
   field, a pair of two FEMALE agents has the later one there. *)
C20_PairsOrientedWhenSexesDiffer ==
    Paired =>
        /\ PairsExclusive
        /\ \A k \in 1..Len(matingPairs) :
              LET m == Agent(agents, matingPairs[k].male)
                  f == Agent(agents, matingPairs[k].female)
              IN  /\ m.sex # f.sex => (m.sex = MALE /\ f.sex = FEMALE)
                  /\ params.MateSameSex = FALSE => m.sex # f.sex
                  /\ (m.sex = MALE /\ f.sex = MALE) => Position(m.id) < Position(f.id)
                  /\ (m.sex = FEMALE /\ f.sex = FEMALE) => Position(m.id) > Position(f.id)

C20_Witness ==
    /\ Paired
    /\ pc = "breed"
    /\ params.MateSameSex
    /\ Len(matingPairs) = 2
    /\ Agent(agents, matingPairs[1].male).sex = FEMALE
    /\ Agent(agents, matingPairs[1].female).sex = FEMALE
    /\ Agent(agents, matingPairs[2].male).sex = MALE
    /\ Agent(agents, matingPairs[2].female).sex = FEMALE

-----------------------------------------------------------------------------
(* C21: in setAncestors a generation-0 agent met by the frontier cursor is
   the only entry left unexpanded, so in any arena whose non-founders have
   parents of strictly lower generation (not necessarily the preceding one)
   the result of setAncestors(x) holds every strict ancestor of x, those
   reached only through frontier entries after a founder included. *)
AncestorsSet(x) ==
    /\ pc = "ancestorsSet"
    /\ call[2] = x

C21_FounderEntrySkipped ==
    \A x \in Ids :
        AncestorsSet(x) =>
            /\ StrictAncestors(agents, x) \subseteq Agent(agents, x).ancestorSet
            /\ StrictAncestors(agents, x) \subseteq Range(Agent(agents, x).ancestorVec)

-----------------------------------------------------------------------------
(* C22: generationDiff(a, a) is 1 for every resolved agent a of generation
   1 or more (the distance to its nearest parent, not 0), and 0 for a
   founder, resolved by setAncestors or not.  Stated of the arenas of the
   Driver and of the tests, where a parent is exactly one generation up. *)
C22_SelfDistance ==
    /\ \A x \in Ids :
          Resolved(x) =>
              generationDiff(agents, Agent(agents, x), Agent(agents, x)) = 1
    /\ pc \in {"done", "built", "resolved"} =>
          \A x \in Ids :
              Agent(agents, x).generation = 0 =>
                  LET a == Agent(agents, x)
                      r == Agent(setAncestors(agents, x), x)
                  IN  /\ generationDiff(agents, a, a) = 0
                      /\ generationDiff(agents, r, r) = 0

C22_Witness ==
    /\ Driven
    /\ \E x \in Ids :
          /\ Resolved(x)
          /\ Agent(agents, x).generation = 2
          /\ Len(Agent(agents, x).ancestorVec) >= 3
          /\ generationDiff(agents, Agent(agents, x), Agent(agents, x)) = 1

-----------------------------------------------------------------------------
(* C23: parent and child links stay consistent over any sequence of
   generation steps.  Every id in a child list names an agent whose mother or
   father is the owner of the list, and every non-founder is in the child
   lists of its mother and of its father.  A step that adds an agent gives it
   the next sequential id and the step's target generation, appends its id to
   the child list of its father and of its mother, and changes nothing else
   in the agents that exist; no other step of Simulate changes the arena. *)
C23_Links ==
    \A x \in Ids :
        LET a == Agent(agents, x)
        IN  /\ \A c \in Range(a.children) :
                  /\ c \in Ids
                  /\ Agent(agents, c).generation > 0
                  /\ x \in {Agent(agents, c).mother, Agent(agents, c).father}
            /\ a.generation > 0 =>
                  /\ x \in Range(Agent(agents, a.mother).children)
                  /\ x \in Range(Agent(agents, a.father).children)

(* The appends a new agent with the given father and mother causes to the
   child list of existing agent q *)
Registered(q, child) ==
    (IF child.father = q THEN <<child.id>> ELSE <<>>) \o
    (IF child.mother = q THEN <<child.id>> ELSE <<>>)

C23_Step ==
    \/ /\ Len(agents') = Len(agents) + 1
       /\ LET child == agents'[Len(agents')]
          IN  /\ child.id = Len(agents)
              /\ child.generation = step
              /\ child.children = <<>>
              /\ child.father \in Ids
              /\ child.mother \in Ids
              /\ \A q \in Ids :
                    agents'[q + 1] =
                        [agents[q + 1] EXCEPT !.children = @ \o Registered(q, child)]
    \/ /\ pc' \in {"resolved", "panic"}
       /\ Len(agents') = Len(agents)
       /\ \A q \in Ids :
             agents'[q + 1] =
                 [agents[q + 1] EXCEPT !.ancestorVec = agents'[q + 1].ancestorVec,
                                       !.ancestorSet = agents'[q + 1].ancestorSet]
    \/ agents' = agents

C23_ParentChildLinks == [](Driven => C23_Links) /\ [][C23_Step]_vars

C23_Witness ==
    /\ Driven
    /\ pc = "done"
    /\ \E x \in Ids :
          /\ Agent(agents, x).generation = 2
          /\ Agent(agents, x).mother # Agent(agents, x).father
    /\ \E q \in Ids :
          /\ Agent(agents, q).generation = 1
          /\ Len(Agent(agents, q).children) >= 2
    /\ \E y \in Ids :
          /\ Agent(agents, y).generation = 1
          /\ Agent(agents, y).mother = Agent(agents, y).father
          /\ Len(Agent(agents, Agent(agents, y).mother).children) >= 2

-----------------------------------------------------------------------------
(* C24: in every state reached by NewSimulation followed by any number of
   successful generation steps, under any strategy and with any founder
   count, 0 included, SetGenBdrys computes the genBdrys the Driver has
   maintained. *)
C24_RecomputedIndexAgrees ==
    (Driven /\ BetweenSteps) => SetGenBdrys(agents) = genBdrys

-----------------------------------------------------------------------------
(* C25: the common-ancestor statistic and the generational-distance
   statistic aggregate over exactly the unordered pairs of distinct agents of
   the last generation, each pair once: n(n-1)/2 evaluations for n agents.
   The reported min, max and mean are those of the values of these pairs; the
   mean is the total divided by the number of pairs evaluated (rounded to a
   whole number, as every mean the reports print). *)
LastGenPairs == {pr \in LastGenIds \X LastGenIds : pr[1] < pr[2]}

CommonOfPair == [pr \in LastGenPairs |-> Cardinality(CommonAncestors(pr[1], pr[2]))]

DistanceOfPair ==
    [pr \in LastGenPairs |->
        LET shared == CommonAncestors(pr[1], pr[2])
        IN  IF shared = {} THEN lastGeneration(agents)
            ELSE lastGeneration(agents) - MostRecentGeneration(shared)]

RECURSIVE SumOver(_, _)
SumOver(f, S) ==
    IF S = {} THEN 0
    ELSE LET pr == CHOOSE q \in S : TRUE
         IN  f[pr] + SumOver(f, S \ {pr})

(* A report's evaluations, total, min and max are those of the values f
   takes on the pairs of the last generation *)
AggregatesPairs(r, f) ==
    LET n == Cardinality(LastGenIds)
    IN  /\ 2 * r.evaluated = n * (n - 1)
        /\ r.total = SumOver(f, LastGenPairs)
        /\ LastGenPairs # {} =>
              /\ \A pr \in LastGenPairs : r.min <= f[pr] /\ f[pr] <= r.max
              /\ \E pr \in LastGenPairs : r.min = f[pr]
              /\ \E pr \in LastGenPairs : r.max = f[pr]

MeanOfPairs(r) == r.evaluated > 0 => r.mean = mathRound(r.total, r.evaluated)

C25_PairStatistics ==
    Analysed =>
        \A k \in 1..Len(report) :
            /\ report[k].stat = "C" =>
                  AggregatesPairs(report[k], CommonOfPair) /\ MeanOfPairs(report[k])
            /\ report[k].stat = "D" =>
                  AggregatesPairs(report[k], DistanceOfPair) /\ MeanOfPairs(report[k])

-----------------------------------------------------------------------------
(* C26: every generation step preserves gene provenance.  The k-th gene
   label of every agent x is the label f-k of a founder f that is x itself or
   a strict ancestor of x, followed by m mutation marks, 0 <= m <=
   x.generation; for a non-founder it is the k-th label of its mother or of
   its father with at most one mark appended.  With mutation disabled m = 0,
   and the labels of a generation are among those of the previous one. *)
Founders == {f \in Ids : Agent(agents, f).generation = 0}

LabelsOf(g) ==
    UNION {Range(Agent(agents, x).genes) :
             x \in {y \in Ids : Agent(agents, y).generation = g}}

C26_GeneProvenance ==
    Driven =>
        /\ \A x \in Ids :
              LET a == Agent(agents, x)
              IN  /\ Len(a.genes) = params.NumGenes
                  /\ \A k \in 1..Len(a.genes) :
                        LET label == a.genes[k]
                        IN  /\ label.index = k - 1
                            /\ label.founder \in Founders
                            /\ label.founder \in {x} \cup StrictAncestors(agents, x)
                            /\ label.marks >= 0
                            /\ label.marks <= a.generation
                            /\ params.MutationRate = 0 => label.marks = 0
                            /\ a.generation > 0 =>
                                  \E q \in {a.mother, a.father} : \E m \in {0, 1} :
                                      label = [Agent(agents, q).genes[k]
                                                  EXCEPT !.marks = @ + m]
        /\ params.MutationRate = 0 =>
              \A x \in Ids :
                  Agent(agents, x).generation > 0 =>
                      LabelsOf(Agent(agents, x).generation)
                          \subseteq LabelsOf(Agent(agents, x).generation - 1)

C26_Witness ==
    /\ Driven
    /\ pc = "done"
    /\ params.NumGenes = 1
    /\ \E x \in Ids : \E y \in Ids :
          /\ Agent(agents, x).generation = 2
          /\ Agent(agents, x).genes[1].marks = 1
          /\ Agent(agents, x).genes[1].founder = 1
          /\ Agent(agents, y).generation = 2
          /\ Agent(agents, y).genes[1].marks = 2
          /\ Agent(agents, y).genes[1].founder = 0

-----------------------------------------------------------------------------
(* C27: after a run whose Simulate returned success and whose Analysis
   reaches gene analysis, reportGenes has called analyzeGenes only on
   non-empty slices that are each exactly the agents of one generation: once
   per generation without the last-generation-only modifier, and exactly
   once, on the last generation, with it. *)
SimulateSucceeded == step = params.Generations + 1

WholeGeneration(slice, g) ==
    /\ slice[1] < slice[2]
    /\ {x \in Ids : Agent(agents, x).generation = g} = slice[1]..(slice[2] - 1)

C27_GenesOnWholeGenerations ==
    (Analysed /\ SimulateSucceeded) =>
        \A k \in 1..Len(report) :
            report[k].stat = "G" =>
                /\ ~report[k].panics
                /\ IF "g" \in params.Analysis
                   THEN /\ Len(report[k].slices) = 1
                        /\ WholeGeneration(report[k].slices[1], params.Generations)
                   ELSE /\ Len(report[k].slices) = params.Generations + 1
                        /\ \A g \in 1..Len(report[k].slices) :
                              WholeGeneration(report[k].slices[g], g - 1)

====
